---------------------------- MODULE Spec2Model ----------------------------
(***************************************************************************)
(* A model of rustnao's Handler (src/src/handler.rs): the builder, the     *)
(* request a get_sauce call builds and sends, and process_results, which   *)
(* classifies the decoded response, stores the rate-limit counters and     *)
(* filters the rows.                                                       *)
(*                                                                         *)
(* Representation.                                                         *)
(*  - Option<T> is a sequence of length 0 (None) or 1 (Some(x)).           *)
(*  - A Rust string that the code inspects (prefix test, split, parse,     *)
(*    to_string) is a sequence of one-character strings; strings the code  *)
(*    only carries around (api key, message, catalog names) are TLA+       *)
(*    strings.                                                             *)
(*  - An f64 is a fixed-point integer counting tenths (50.0 is 500); the   *)
(*    decimal strings of the model carry at most one fractional digit.     *)
(*  - A u32 that holds a bitmask is the set of its one-bits (0..31); every *)
(*    other u32 is a natural number below 2^31.                            *)
(***************************************************************************)
EXTENDS Integers, Sequences, FiniteSets, TLC

(***************************************************************************)
(* Option<T>                                                               *)
(***************************************************************************)
None == <<>>

Some(x) == <<x>>

IsSome(o) == Len(o) = 1

Unwrap(o) == o[1]

(***************************************************************************)
(* Strings as character sequences                                          *)
(***************************************************************************)
Digits == {"0", "1", "2", "3", "4", "5", "6", "7", "8", "9"}

DigitVal(c) ==
    CASE c = "0" -> 0 [] c = "1" -> 1 [] c = "2" -> 2 [] c = "3" -> 3
      [] c = "4" -> 4 [] c = "5" -> 5 [] c = "6" -> 6 [] c = "7" -> 7
      [] c = "8" -> 8 [] c = "9" -> 9

DigitChar(d) ==
    CASE d = 0 -> "0" [] d = 1 -> "1" [] d = 2 -> "2" [] d = 3 -> "3"
      [] d = 4 -> "4" [] d = 5 -> "5" [] d = 6 -> "6" [] d = 7 -> "7"
      [] d = 8 -> "8" [] d = 9 -> "9"

AllDigits(s) == \A i \in 1..Len(s) : s[i] \in Digits

\* The value of a sequence of decimal digits (0 for the empty sequence).
RECURSIVE DigitsValue(_)
DigitsValue(s) ==
    IF s = <<>> THEN 0
    ELSE 10 * DigitsValue(SubSeq(s, 1, Len(s) - 1)) + DigitVal(s[Len(s)])

\* str::starts_with
StartsWith(s, p) == Len(s) >= Len(p) /\ SubSeq(s, 1, Len(p)) = p

\* The position of the first occurrence of character c in s, or 0.
FirstIndexOf(s, c) ==
    IF \E i \in 1..Len(s) : s[i] = c
    THEN CHOOSE i \in 1..Len(s) : s[i] = c /\ \A j \in 1..(i - 1) : s[j] # c
    ELSE 0

\* str::split(c).collect::<Vec<&str>>(): the pieces between occurrences of c
\* (always at least one piece, possibly empty).
RECURSIVE Split(_, _)
Split(s, c) ==
    LET k == FirstIndexOf(s, c)
    IN  IF k = 0 THEN <<s>>
        ELSE <<SubSeq(s, 1, k - 1)>> \o Split(SubSeq(s, k + 1, Len(s)), c)

\* u32::to_string
RECURSIVE U32ToString(_)
U32ToString(n) ==
    IF n < 10 THEN <<DigitChar(n)>>
    ELSE U32ToString(n \div 10) \o <<DigitChar(n % 10)>>

\* The longest digit string the model parses: its value stays below 2^31.
MaxDigits == 9

\* str::parse::<u32>(): an optional '+', then one or more digits; anything
\* else (empty, a sign alone, '-', a non-digit, too many digits) is an error.
ParseU32(s) ==
    LET body == IF s # <<>> /\ s[1] = "+" THEN Tail(s) ELSE s
    IN  IF body # <<>> /\ AllDigits(body) /\ Len(body) <= MaxDigits
        THEN Some(DigitsValue(body))
        ELSE None

\* str::parse::<f64>() on the decimal strings of the model: an optional
\* sign, digits, an optional point and digits, at least one digit in all.
\* The value is in tenths.
ParseF64(s) ==
    LET neg  == s # <<>> /\ s[1] = "-"
        body == IF s # <<>> /\ s[1] \in {"+", "-"} THEN Tail(s) ELSE s
        k    == FirstIndexOf(body, ".")
        ip   == IF k = 0 THEN body ELSE SubSeq(body, 1, k - 1)
        fp   == IF k = 0 THEN <<>> ELSE SubSeq(body, k + 1, Len(body))
        mag  == 10 * DigitsValue(ip) + (IF fp = <<>> THEN 0 ELSE DigitVal(fp[1]))
    IN  IF /\ AllDigits(ip) /\ AllDigits(fp)
           /\ Len(ip) + Len(fp) >= 1
           /\ Len(ip) <= MaxDigits - 1 /\ Len(fp) <= 1
        THEN Some(IF neg THEN 0 - mag ELSE mag)
        ELSE None


(***************************************************************************)
(* The source catalog (src/src/handler/constants.rs)                       *)
(***************************************************************************)
SourceTable ==
    { <<0, "H-Magazines">>, <<2, "H-Game CG">>, <<3, "DoujinshiDB">>,
      <<5, "pixiv Images">>, <<8, "Nico Nico Seiga">>, <<9, "Danbooru">>,
      <<10, "drawr Images">>, <<11, "Nijie Images">>, <<12, "Yande.re">>,
      <<15, "Shutterstock">>, <<16, "FAKKU">>, <<18, "H-Misc">>,
      <<19, "2D-Market">>, <<20, "MediBang">>, <<21, "Anime">>,
      <<22, "H-Anime">>, <<23, "Movies">>, <<24, "Shows">>,
      <<25, "Gelbooru">>, <<26, "Konachan">>, <<27, "Sankaku Channel">>,
      <<28, "Anime-Pictures.net">>, <<29, "e621.net">>, <<30, "Idol Complex">>,
      <<31, "bcy.net Illust">>, <<32, "bcy.net Cosplay">>,
      <<33, "PortalGraphics.net">>, <<34, "deviantArt">>, <<35, "Pawoo.net">>,
      <<36, "Madokami">>, <<37, "MangaDex">>, <<38, "E-Hentai">>,
      <<39, "ArtStation">>, <<40, "FurAffinity">>, <<41, "Twitter">>,
      <<42, "Furry Network">>, <<43, "Kemono">>, <<44, "Skeb">> }

\* Handler::get_source: the catalog entry of an index, if there is one.
get_source(index) ==
    IF \E p \in SourceTable : p[1] = index
    THEN Some(CHOOSE p \in SourceTable : p[1] = index)
    ELSE None

(***************************************************************************)
(* Bitmasks: a u32 as the set of its one-bits                              *)
(***************************************************************************)
U32Bits == 32

\* Handler::generate_bitmask.  res ^= u32::pow(2, m - offset): the power has
\* one bit, so the xor toggles that bit.  When the power overflows 32 bits
\* the build decides: with overflow checks the call panics (None), without
\* them the power wraps to 0 and the xor changes nothing.
RECURSIVE generate_bitmask_from(_, _, _)
generate_bitmask_from(mask, res, checked) ==
    IF mask = <<>> THEN Some(res)
    ELSE LET m      == Head(mask)
             offset == IF m >= 18 THEN 1 ELSE 0
             e      == m - offset
         IN  IF e >= U32Bits
             THEN IF checked THEN None
                  ELSE generate_bitmask_from(Tail(mask), res, checked)
             ELSE generate_bitmask_from(
                      Tail(mask),
                      IF e \in res THEN res \ {e} ELSE res \cup {e},
                      checked)

generate_bitmask(mask, checked) == generate_bitmask_from(mask, {}, checked)

\* u32::to_string of a bitmask.  The value is kept as hi * 10^5 + lo while
\* the bits are folded in from the top, so no intermediate exceeds 2^31.
RECURSIVE BitsToHiLo(_, _, _)
BitsToHiLo(bits, k, acc) ==
    IF k < 0 THEN acc
    ELSE LET lo2 == 2 * acc[2] + (IF k \in bits THEN 1 ELSE 0)
         IN  BitsToHiLo(bits, k - 1,
                        <<2 * acc[1] + (lo2 \div 100000), lo2 % 100000>>)

Pad5(s) == IF Len(s) >= 5 THEN s ELSE [i \in 1..(5 - Len(s)) |-> "0"] \o s

BitmaskToString(bits) ==
    LET v == BitsToHiLo(bits, U32Bits - 1, <<0, 0>>)
    IN  IF v[1] = 0 THEN U32ToString(v[2])
        ELSE U32ToString(v[1]) \o Pad5(U32ToString(v[2]))

(***************************************************************************)
(* HandlerBuilder and Handler::new                                         *)
(***************************************************************************)
\* Handler::new: the immutable fields of a handler.
HandlerNew(api_key, testmode, db_mask, db_mask_i, db, num_results) ==
    [ api_key     |-> api_key,
      output_type |-> 2,
      testmode    |-> testmode,
      db_mask     |-> db_mask,
      db_mask_i   |-> db_mask_i,
      db          |-> db,
      num_results |-> num_results ]

\* Handler::new: the counters and the mutable defaults of a fresh handler.
InitShortLimit == 12

InitLongLimit == 200

InitShortLeft == 12

InitLongLeft == 200

InitMinSimilarity == 0

InitEmptyFilter == FALSE

\* HandlerBuilder::build, the immutable part.
BuildConfig(b) ==
    HandlerNew(IF IsSome(b.api_key) THEN Unwrap(b.api_key) ELSE <<>>,
               IF IsSome(b.testmode)
               THEN Some(IF Unwrap(b.testmode) THEN 1 ELSE 0)
               ELSE None,
               b.db_mask, b.db_mask_i, b.db, b.num_results)

\* HandlerBuilder::build: set_min_similarity if the builder has a value.
BuildMinSimilarity(b) ==
    IF IsSome(b.min_similarity) THEN Unwrap(b.min_similarity)
    ELSE InitMinSimilarity

\* HandlerBuilder::build: set_empty_filter if the builder has a value.
BuildEmptyFilter(b) ==
    IF IsSome(b.empty_filter_enabled) THEN Unwrap(b.empty_filter_enabled)
    ELSE InitEmptyFilter

(***************************************************************************)
(* Validation and the request URL                                          *)
(***************************************************************************)
MaxNumRes == 999

MinSimLow == 0

MinSimHigh == 1000

\* is_valid_min_sim with the upper bound excluded.
is_valid_min_sim_open(min_similarity) ==
    ~ ( IsSome(min_similarity)
        /\ ~ (MinSimLow <= Unwrap(min_similarity)
              /\ Unwrap(min_similarity) < MinSimHigh) )

\* Handler::is_valid_min_sim: None, or a value in 0.0..=100.0.
is_valid_min_sim(min_similarity) ==
    ~ ( IsSome(min_similarity)
        /\ ~ (MinSimLow <= Unwrap(min_similarity)
              /\ Unwrap(min_similarity) <= MinSimHigh) )

\* is_valid_num_res with the bound off by one.
is_valid_num_res_late(num_results) ==
    ~ (IsSome(num_results) /\ Unwrap(num_results) > MaxNumRes + 1)

\* Handler::is_valid_num_res: None, or a value that is not > 999.
is_valid_num_res(num_results) ==
    ~ (IsSome(num_results) /\ Unwrap(num_results) > MaxNumRes)

HttpsPrefix == <<"h", "t", "t", "p", "s", ":", "/", "/">>

HttpPrefix == <<"h", "t", "t", "p", ":", "/", "/">>

\* The test both generate_url and get_sauce apply to the image target.
IsLink(image_path) ==
    StartsWith(image_path, HttpsPrefix) \/ StartsWith(image_path, HttpPrefix)

\* numres_pair with the configured num_results taking precedence over the
\* argument.
numres_pair_config_first(cfg, num_results) ==
    IF IsSome(cfg.num_results)
    THEN << <<"numres", U32ToString(Unwrap(cfg.num_results))>> >>
    ELSE IF IsSome(num_results)
         THEN << <<"numres", U32ToString(Unwrap(num_results))>> >>
         ELSE << <<"numres", <<"9", "9", "9">> >> >>

\* Handler::generate_url, the match on num_results (handler.rs 333-345).
numres_pair(cfg, num_results) ==
    IF IsSome(num_results)
    THEN << <<"numres", U32ToString(Unwrap(num_results))>> >>
    ELSE IF IsSome(cfg.num_results)
         THEN << <<"numres", U32ToString(Unwrap(cfg.num_results))>> >>
         ELSE << <<"numres", <<"9", "9", "9">> >> >>

\* dbmask_pair without the is_empty test.
dbmask_pair_always(key, list, mask) ==
    IF IsSome(list)
    THEN << <<key, BitmaskToString(Unwrap(mask))>> >>
    ELSE <<>>

\* Handler::generate_url, handler.rs 309-322: the dbmask (dbmaski) pair of a
\* list that is set and not empty; mask is its generate_bitmask.
dbmask_pair(key, list, mask) ==
    IF IsSome(list) /\ Unwrap(list) # <<>>
    THEN << <<key, BitmaskToString(Unwrap(mask))>> >>
    ELSE <<>>

\* Handler::generate_url: the query pairs appended to API_URL, in order, or
\* None when generate_bitmask panics.  Url::parse of the constant API_URL
\* cannot fail.
generate_url(cfg, image_path, num_results, checked) ==
    LET maskOf(o)  == IF IsSome(o) /\ Unwrap(o) # <<>>
                      THEN generate_bitmask(Unwrap(o), checked)
                      ELSE Some({})
        mask       == maskOf(cfg.db_mask)
        mask_i     == maskOf(cfg.db_mask_i)
        base       == << <<"api_key", cfg.api_key>>,
                         <<"output_type", U32ToString(cfg.output_type)>> >>
        db         == IF IsSome(cfg.db)
                      THEN << <<"db", U32ToString(Unwrap(cfg.db))>> >>
                      ELSE <<>>
        dbmask     == dbmask_pair("dbmask", cfg.db_mask, mask)
        dbmaski    == dbmask_pair("dbmaski", cfg.db_mask_i, mask_i)
        testmode   == IF IsSome(cfg.testmode)
                      THEN << <<"testmode", U32ToString(Unwrap(cfg.testmode))>> >>
                      ELSE << <<"testmode", <<"0">> >> >>
        numres     == numres_pair(cfg, num_results)
        url        == IF IsLink(image_path)
                      THEN << <<"url", image_path>> >>
                      ELSE <<>>
    IN  IF mask = None \/ mask_i = None THEN None
        ELSE Some(base \o db \o dbmask \o dbmaski \o testmode \o numres \o url)

(***************************************************************************)
(* State                                                                   *)
(***************************************************************************)
VARIABLES
    cfg,                   \* the handler's immutable fields (Handler::new)
    short_limit,           \* AtomicU32
    long_limit,            \* AtomicU32
    short_left,            \* AtomicU32
    long_left,             \* AtomicU32
    min_similarity,        \* Mutex<f64>, in tenths
    empty_filter_enabled,  \* AtomicBool
    calls                  \* the get_sauce calls on this handler, by slot

vars == << cfg, short_limit, long_limit, short_left, long_left,
           min_similarity, empty_filter_enabled, calls >>

counters == << short_limit, long_limit, short_left, long_left >>

defaults == << min_similarity, empty_filter_enabled >>

\* How many get_sauce calls the handler's users keep in flight at once.
MaxInFlight == 2

CallIds == 1..MaxInFlight

\* What a caller can read from the handler when it enters get_sauce.
Snapshot ==
    [ short_limit  |-> short_limit,  long_limit   |-> long_limit,
      short_left   |-> short_left,   long_left    |-> long_left,
      min_similarity |-> min_similarity,
      empty_filter_enabled |-> empty_filter_enabled ]

NoSnapshot ==
    [ short_limit  |-> 0, long_limit |-> 0, short_left |-> 0, long_left |-> 0,
      min_similarity |-> 0, empty_filter_enabled |-> FALSE ]

\* A slot with no call in it.
IdleCall ==
    [ pc             |-> "idle",
      image_path     |-> <<>>,   \* the arguments of get_sauce
      num_results    |-> None,
      min_similarity |-> None,
      request        |-> None,   \* the request in flight: url and body
      reads          |-> 0,      \* file reads this call has made
      read_failed    |-> FALSE,  \* std::fs::read returned an error
      sends          |-> 0,      \* requests this call has sent
      received       |-> "none", \* how send() and json() ended
      response       |-> None,   \* returned_sauce
      i              |-> 0,      \* the row the loop is at
      actual_min_sim |-> 0,
      ret_sauce      |-> <<>>,
      result         |-> None,   \* what the call returned
      before         |-> NoSnapshot ]

\* Result<Vec<Sauce>>, or the panic of the task.
Ok(sauces) ==
    [kind |-> "Ok", err |-> "", code |-> 0, message |-> "", sauces |-> sauces]

Err(err) ==
    [kind |-> "Err", err |-> err, code |-> 0, message |-> "", sauces |-> <<>>]

\* Error::InvalidParameters(message)
ErrInvalidParameters(message) ==
    [kind |-> "Err", err |-> "InvalidParameters", code |-> 0,
     message |-> message, sauces |-> <<>>]

MinSimMessage == "min_similarity must be less 100.0 and greater than 0.0."

NumResMessage == "num_results must be less than 999."

\* Error::InvalidCode { code, message }
ErrInvalidCode(code, message) ==
    [kind |-> "Err", err |-> "InvalidCode", code |-> code,
     message |-> message, sauces |-> <<>>]

Panic ==
    [kind |-> "Panic", err |-> "", code |-> 0, message |-> "", sauces |-> <<>>]

Finish(call, result) == [call EXCEPT !.pc = "done", !.result = Some(result)]

InProcess(call) == call.pc \notin {"idle", "sent", "done"}

(***************************************************************************)
(* get_sauce up to the request                                             *)
(***************************************************************************)
DefaultFileName == <<"i", "m", "a", "g", "e", ".", "j", "p", "g">>

\* Path::new(image_path).file_name()...unwrap_or("image.jpg"): the last
\* component of the path, unless there is none or it is "..".
FileNameOf(image_path) ==
    LET parts == SelectSeq(Split(image_path, "/"),
                           LAMBDA x : x # <<>> /\ x # <<".">>)
    IN  IF parts = <<>> \/ parts[Len(parts)] = <<".", ".">>
        THEN DefaultFileName
        ELSE parts[Len(parts)]

\* RequestOf taking only https:// targets for links.
RequestOfHttpsOnly(url, image_path) ==
    [ url  |-> url,
      body |-> IF ~ StartsWith(image_path, HttpsPrefix)
               THEN Some([part |-> "file", file_name |-> FileNameOf(image_path)])
               ELSE None ]

\* The request get_sauce posts: no body for a link, a multipart form with
\* one "file" part for a local image.
RequestOf(url, image_path) ==
    [ url  |-> url,
      body |-> IF ~ IsLink(image_path)
               THEN Some([part |-> "file", file_name |-> FileNameOf(image_path)])
               ELSE None ]

\* ReadFailed with the request posted without the file.
ReadFailedSent(call) ==
    Finish([call EXCEPT !.reads = 1, !.read_failed = TRUE, !.sends = 1],
           Err("InvalidRequest"))

\* handler.rs 566: std::fs::read(image_path)? on an unreadable file; the
\* io::Error becomes Error::InvalidFile and get_sauce returns.
ReadFailed(call) ==
    Finish([call EXCEPT !.reads = 1, !.read_failed = TRUE], Err("InvalidFile"))

\* Handler::get_sauce from its entry to the first await: validation,
\* generate_url, the file read of a local image, and the post.  readOk is
\* whether std::fs::read succeeds; checked is whether the build panics on
\* arithmetic overflow; before is what the caller read from the getters
\* just before the call (NoSnapshot if it read nothing).
GetSauce(c, image_path, num_results, min_sim, readOk, checked, before) ==
    LET call == [calls[c] EXCEPT !.image_path = image_path,
                                 !.num_results = num_results,
                                 !.min_similarity = min_sim,
                                 !.before = before]
        url  == generate_url(cfg, image_path, num_results, checked)
    IN  /\ calls[c].pc = "idle"
        /\ \A d \in 1..(c - 1) : calls[d].pc # "idle"
        /\ calls' = [calls EXCEPT ![c] =
               IF ~ is_valid_min_sim(min_sim)
               THEN Finish(call, ErrInvalidParameters(MinSimMessage))
               ELSE IF ~ is_valid_num_res(num_results)
               THEN Finish(call, ErrInvalidParameters(NumResMessage))
               ELSE IF url = None
               THEN Finish(call, Panic)
               ELSE IF ~ IsLink(image_path) /\ ~ readOk
               THEN ReadFailed(call)
               ELSE [call EXCEPT
                        !.pc = "sent",
                        !.reads = IF IsLink(image_path) THEN 0 ELSE 1,
                        !.sends = 1,
                        !.request = Some(RequestOf(Unwrap(url), image_path))]]
        /\ UNCHANGED << cfg, counters, defaults >>

\* The two awaits of get_sauce, send() and response.json(): the transport
\* fails, or the body does not decode, or it decodes to a SauceResult.  Both
\* failures are a reqwest::Error.
Respond(c, outcome) ==
    /\ calls[c].pc = "sent"
    /\ calls' = [calls EXCEPT ![c] =
           LET call == [calls[c] EXCEPT !.request = None,
                                        !.image_path = <<>>,
                                        !.num_results = None,
                                        !.received = outcome.kind]
           IN  IF outcome.kind \in {"send_error", "undecodable"}
               THEN Finish(call, Err("InvalidRequest"))
               ELSE [call EXCEPT !.pc = "store_short_left",
                                 !.response = Some(outcome.body)]]
    /\ UNCHANGED << cfg, counters, defaults >>

(***************************************************************************)
(* process_results, one shared access per step                             *)
(***************************************************************************)
\* StoreShortLeft with the store moved above the status test.
StoreShortLeftFirst(c) ==
    LET h == Unwrap(calls[c].response).header
    IN  /\ calls[c].pc = "store_short_left"
        /\ short_left' = h.short_remaining
        /\ calls' = [calls EXCEPT ![c] =
               IF h.status >= 0 THEN [@ EXCEPT !.pc = "store_long_left"]
               ELSE Finish(@, ErrInvalidCode(h.status, h.message))]
        /\ UNCHANGED << cfg, short_limit, long_limit, long_left, defaults >>

\* StoreShortLeft storing the long-window value.
StoreShortLeftSwapped(c) ==
    LET h == Unwrap(calls[c].response).header
    IN  /\ calls[c].pc = "store_short_left"
        /\ IF h.status >= 0
           THEN /\ short_left' = h.long_remaining
                /\ calls' = [calls EXCEPT ![c].pc = "store_long_left"]
           ELSE /\ short_left' = short_left
                /\ calls' = [calls EXCEPT ![c] =
                      Finish(@, ErrInvalidCode(h.status, h.message))]
        /\ UNCHANGED << cfg, short_limit, long_limit, long_left, defaults >>

\* handler.rs 476-478: the status test and the store of short_left.
StoreShortLeft(c) ==
    LET h == Unwrap(calls[c].response).header
    IN  /\ calls[c].pc = "store_short_left"
        /\ IF h.status >= 0
           THEN /\ short_left' = h.short_remaining
                /\ calls' = [calls EXCEPT ![c].pc = "store_long_left"]
           ELSE /\ short_left' = short_left
                /\ calls' = [calls EXCEPT ![c] =
                      Finish(@, ErrInvalidCode(h.status, h.message))]
        /\ UNCHANGED << cfg, short_limit, long_limit, long_left, defaults >>

\* StoreLongLeft storing the short-window value.
StoreLongLeftSwapped(c) ==
    LET h == Unwrap(calls[c].response).header
    IN  /\ calls[c].pc = "store_long_left"
        /\ long_left' = h.short_remaining
        /\ calls' = [calls EXCEPT ![c].pc = "store_short_limit"]
        /\ UNCHANGED << cfg, short_limit, long_limit, short_left, defaults >>

\* handler.rs 479
StoreLongLeft(c) ==
    LET h == Unwrap(calls[c].response).header
    IN  /\ calls[c].pc = "store_long_left"
        /\ long_left' = h.long_remaining
        /\ calls' = [calls EXCEPT ![c].pc = "store_short_limit"]
        /\ UNCHANGED << cfg, short_limit, long_limit, short_left, defaults >>

\* handler.rs 480: parse()? then store.
StoreShortLimit(c) ==
    LET h == Unwrap(calls[c].response).header
        v == ParseU32(h.short_limit)
    IN  /\ calls[c].pc = "store_short_limit"
        /\ IF IsSome(v)
           THEN /\ short_limit' = Unwrap(v)
                /\ calls' = [calls EXCEPT ![c].pc = "store_long_limit"]
           ELSE /\ short_limit' = short_limit
                /\ calls' = [calls EXCEPT ![c] = Finish(@, Err("InvalidParse"))]
        /\ UNCHANGED << cfg, long_limit, short_left, long_left, defaults >>

\* handler.rs 481: parse()? then store.
StoreLongLimit(c) ==
    LET h == Unwrap(calls[c].response).header
        v == ParseU32(h.long_limit)
    IN  /\ calls[c].pc = "store_long_limit"
        /\ IF IsSome(v)
           THEN /\ long_limit' = Unwrap(v)
                /\ calls' = [calls EXCEPT ![c].pc = "results"]
           ELSE /\ long_limit' = long_limit
                /\ calls' = [calls EXCEPT ![c] = Finish(@, Err("InvalidParse"))]
        /\ UNCHANGED << cfg, short_limit, short_left, long_left, defaults >>

\* sauce::new_sauce, the fields the model follows.  The site is the catalog
\* name, or the row's index label when the catalog has no such index.
new_sauce(ext_urls, site, index, index_id, similarity) ==
    [ ext_urls |-> ext_urls, site |-> site, index |-> index,
      index_id |-> index_id, similarity |-> similarity ]

CatalogSite(name) == [catalog |-> TRUE, name |-> name, label |-> <<>>]

LabelSite(label) == [catalog |-> FALSE, name |-> "", label |-> label]

\* The loop moves to the next row, or returns Ok(ret_sauce) after the last.
NextRow(call) ==
    IF call.i >= Len(Unwrap(Unwrap(call.response).results))
    THEN Finish(call, Ok(call.ret_sauce))
    ELSE [call EXCEPT !.pc = "row", !.i = @ + 1]

\* PushSauce skipping a row equal to one already pushed.
PushSauceOnce(call, row) ==
    LET pieces == Split(Split(row.index_name, ":")[1], "#")
        idx    == ParseU32(pieces[2])
        source == get_source(Unwrap(idx))
        site   == IF IsSome(source) THEN CatalogSite(Unwrap(source)[2])
                  ELSE LabelSite(row.index_name)
        sauce  == new_sauce(row.ext_urls, site, Unwrap(idx), row.index_id,
                            Unwrap(ParseF64(row.similarity)))
    IN  IF Len(pieces) < 2 THEN Finish(call, Panic)
        ELSE IF idx = None THEN Finish(call, Err("InvalidParse"))
        ELSE IF \E j \in 1..Len(call.ret_sauce) : call.ret_sauce[j] = sauce
        THEN NextRow(call)
        ELSE NextRow([call EXCEPT !.ret_sauce = Append(@, sauce)])

\* handler.rs 491-535: the body of the if, for an admitted row.
PushSauce(call, row) ==
    LET pieces == Split(Split(row.index_name, ":")[1], "#")
        idx    == ParseU32(pieces[2])
        source == get_source(Unwrap(idx))
        site   == IF IsSome(source) THEN CatalogSite(Unwrap(source)[2])
                  ELSE LabelSite(row.index_name)
    IN  IF Len(pieces) < 2 THEN Finish(call, Panic)
        ELSE IF idx = None THEN Finish(call, Err("InvalidParse"))
        ELSE NextRow([call EXCEPT !.ret_sauce =
                 Append(@, new_sauce(row.ext_urls, site, Unwrap(idx),
                                     row.index_id,
                                     Unwrap(ParseF64(row.similarity))))])

\* ReadMinSim taking a missing results list for a malformed response.
ReadMinSimStrict(c) ==
    LET call == calls[c]
        res  == Unwrap(call.response).results
    IN  /\ call.pc = "results"
        /\ calls' = [calls EXCEPT ![c] =
               IF res = None THEN Finish(call, Err("InvalidSerde"))
               ELSE NextRow([call EXCEPT !.actual_min_sim =
                        IF IsSome(call.min_similarity)
                        THEN Unwrap(call.min_similarity)
                        ELSE min_similarity])]
        /\ UNCHANGED << cfg, counters, defaults >>

\* handler.rs 484-485: no results list gives Ok(empty); otherwise the
\* threshold is the argument, or the default read under the mutex.
ReadMinSim(c) ==
    LET call == calls[c]
        res  == Unwrap(call.response).results
    IN  /\ call.pc = "results"
        /\ calls' = [calls EXCEPT ![c] =
               IF res = None THEN Finish(call, Ok(call.ret_sauce))
               ELSE NextRow([call EXCEPT !.actual_min_sim =
                        IF IsSome(call.min_similarity)
                        THEN Unwrap(call.min_similarity)
                        ELSE min_similarity])]
        /\ UNCHANGED << cfg, counters, defaults >>

\* FilterRow with > in place of >=.
FilterRowStrict(c) ==
    LET call == calls[c]
        row  == Unwrap(Unwrap(call.response).results)[call.i]
        sim  == ParseF64(row.similarity)
    IN  /\ call.pc = "row"
        /\ calls' = [calls EXCEPT ![c] =
               IF sim = None THEN Finish(call, Err("InvalidParse"))
               ELSE IF ~ (Unwrap(sim) > call.actual_min_sim) THEN NextRow(call)
               ELSE IF empty_filter_enabled /\ row.ext_urls # <<>>
               THEN PushSauce(call, row)
               ELSE [call EXCEPT !.pc = "row_reload"]]
        /\ UNCHANGED << cfg, counters, defaults >>

\* FilterRow reading the default minimum similarity again for each row.
FilterRowRereads(c) ==
    LET call == calls[c]
        row  == Unwrap(Unwrap(call.response).results)[call.i]
        sim  == ParseF64(row.similarity)
        min  == IF IsSome(call.min_similarity) THEN Unwrap(call.min_similarity)
                ELSE min_similarity
    IN  /\ call.pc = "row"
        /\ calls' = [calls EXCEPT ![c] =
               IF sim = None THEN Finish(call, Err("InvalidParse"))
               ELSE IF ~ (Unwrap(sim) >= min) THEN NextRow(call)
               ELSE IF empty_filter_enabled /\ row.ext_urls # <<>>
               THEN PushSauce(call, row)
               ELSE [call EXCEPT !.pc = "row_reload"]]
        /\ UNCHANGED << cfg, counters, defaults >>

\* handler.rs 487-489: the similarity is parsed and compared, and the filter
\* flag is loaded for the left operand of ||.
FilterRow(c) ==
    LET call == calls[c]
        row  == Unwrap(Unwrap(call.response).results)[call.i]
        sim  == ParseF64(row.similarity)
    IN  /\ call.pc = "row"
        /\ calls' = [calls EXCEPT ![c] =
               IF sim = None THEN Finish(call, Err("InvalidParse"))
               ELSE IF ~ (Unwrap(sim) >= call.actual_min_sim) THEN NextRow(call)
               ELSE IF empty_filter_enabled /\ row.ext_urls # <<>>
               THEN PushSauce(call, row)
               ELSE [call EXCEPT !.pc = "row_reload"]]
        /\ UNCHANGED << cfg, counters, defaults >>

\* handler.rs 489: the second load of the flag, for the right operand of ||.
FilterRowReload(c) ==
    LET call == calls[c]
        row  == Unwrap(Unwrap(call.response).results)[call.i]
    IN  /\ call.pc = "row_reload"
        /\ calls' = [calls EXCEPT ![c] =
               IF ~ empty_filter_enabled THEN PushSauce(call, row)
               ELSE NextRow(call)]
        /\ UNCHANGED << cfg, counters, defaults >>

\* The caller takes the result; the slot is free again.
Return(c) ==
    /\ calls[c].pc = "done"
    /\ calls' = [calls EXCEPT ![c] = IdleCall]
    /\ UNCHANGED << cfg, counters, defaults >>

\* Handler::get_sauce_as_json: an error of get_sauce is returned as it is
\* (the ? operator); an Ok list is serialized to one JSON string.
get_sauce_as_json(result) ==
    IF result.kind = "Ok"
    THEN [kind |-> "OkJson", err |-> "", code |-> 0, message |-> "",
          sauces |-> << result.sauces >>]
    ELSE result

(***************************************************************************)
(* The setters                                                             *)
(***************************************************************************)
\* Handler::set_min_similarity
set_min_similarity(x) ==
    /\ min_similarity' = x
    /\ UNCHANGED << cfg, counters, empty_filter_enabled, calls >>

\* Handler::set_empty_filter
set_empty_filter(enabled) ==
    /\ empty_filter_enabled' = enabled
    /\ UNCHANGED << cfg, counters, min_similarity, calls >>

(***************************************************************************)
(* The handler's users and the provider                                    *)
(***************************************************************************)
\* Image targets: two links, a local path, and a path that only looks like
\* a link.
LinkHttps == HttpsPrefix \o <<"a">>

LinkHttp == HttpPrefix \o <<"a">>

LocalPath == <<".", "/", "t", ".", "j", "p", "g">>

NearLink == <<"h", "t", "t", "p", ":", "/", "a">>

\* A response row: header.similarity, header.index_name, header.index_id and
\* data.ext_urls.
Row(similarity, index_name, index_id, ext_urls) ==
    [ similarity |-> similarity, index_name |-> index_name,
      index_id |-> index_id, ext_urls |-> ext_urls ]

PixivLabel == <<"I", " ", "#", "5", ":", " ", "p">>

UnknownLabel == <<"I", " ", "#", "9", "9", ":", " ", "u">>

NoHashLabel == <<"I", " ", "5", ":", " ", "p">>

NoNumberLabel == <<"I", " ", "#", "x", ":", " ", "p">>

OneUrl == << <<"u">> >>

RowKinds ==
    { Row(<<"1", "0", ".", "0">>, PixivLabel, 1, OneUrl),
      Row(<<"6", "0", ".", "0">>, UnknownLabel, 2, <<>>),
      Row(<<"9", "0", ".", "0">>, PixivLabel, 3, OneUrl),
      Row(<<"9", "x">>, PixivLabel, 4, <<>>),
      Row(<<"9", "0", ".", "0">>, NoHashLabel, 5, OneUrl),
      Row(<<"6", "0", ".", "0">>, NoNumberLabel, 6, OneUrl) }

\* The longest results list of a response, the spec's three-row example apart.
MaxRows == 2

\* Rows with similarities 10.0, 60.0 and 90.0, in that order.
ExampleRows ==
    << Row(<<"1", "0", ".", "0">>, PixivLabel, 1, OneUrl),
       Row(<<"6", "0", ".", "0">>, UnknownLabel, 2, <<>>),
       Row(<<"9", "0", ".", "0">>, PixivLabel, 3, OneUrl) >>

SeqsUpTo(S, n) == UNION { [1..k -> S] : k \in 0..n }

Header(status, message, short_remaining, long_remaining, short_lim, long_lim) ==
    [ status |-> status, message |-> message,
      short_remaining |-> short_remaining, long_remaining |-> long_remaining,
      short_limit |-> short_lim, long_limit |-> long_lim ]

\* The header of an accepted search, met with every results list.
GoodHeaders ==
    { Header(0, "", 3, 99, <<"4">>, <<"1", "0", "0">>) }

\* Another accepted search, rejected searches, and accepted ones whose
\* limits do not parse; each is met with no list and with a one-row list.
OddHeaders ==
    { Header(2, "", 11, 150, <<"6">>, <<"3", "0", "0">>),
      Header(-1, "Invalid API key", 3, 99, <<"4">>, <<"1", "0", "0">>),
      Header(-2, "Too many failed search attempts", 0, 0, <<"6">>, <<"3", "0", "0">>),
      Header(0, "", 3, 99, <<"4", "x">>, <<"1", "0", "0">>),
      Header(1, "", 11, 150, <<"6">>, <<>>) }

SauceResult(header, results) == [header |-> header, results |-> results]

Decoded(body) == [kind |-> "decoded", body |-> body]

Failure(kind) == [kind |-> kind, body |-> SauceResult(Header(0, "", 0, 0, <<>>, <<>>), None)]

\* What the provider may answer when the handler is used by one task.
SeqOutcomes ==
    { Failure("send_error"), Failure("undecodable") }
    \cup { Decoded(SauceResult(h, r)) :
             h \in GoodHeaders, r \in {None} \cup { Some(l) : l \in SeqsUpTo(RowKinds, MaxRows) \cup {ExampleRows} } }
    \cup { Decoded(SauceResult(h, r)) :
             h \in OddHeaders,
             r \in { None, Some(<< Row(<<"9", "0", ".", "0">>, PixivLabel, 3, OneUrl) >>) } }

Builder(api_key, testmode, db_mask, db_mask_i, db, num_results, min_sim, empty_filter) ==
    [ api_key |-> api_key, testmode |-> testmode, db_mask |-> db_mask,
      db_mask_i |-> db_mask_i, db |-> db, num_results |-> num_results,
      min_similarity |-> min_sim, empty_filter_enabled |-> empty_filter ]

\* HandlerBuilder::default()
DefaultBuilder == Builder(None, None, None, None, None, None, None, None)

SeqBuilders ==
    { DefaultBuilder,
      Builder(None, None, None, None, None, None, Some(600), Some(TRUE)) }

SeqPaths == { LinkHttps, LocalPath }

SeqNumRes == { None, Some(5), Some(1000) }

SeqMinSims == { None, Some(500), Some(1001) }

SeqSetMinSims == { 0, 600 }

\* The handler a builder gives, with no call yet.
InitWith(builders) ==
    \E b \in builders :
        /\ cfg = BuildConfig(b)
        /\ short_limit = InitShortLimit
        /\ long_limit = InitLongLimit
        /\ short_left = InitShortLeft
        /\ long_left = InitLongLeft
        /\ min_similarity = BuildMinSimilarity(b)
        /\ empty_filter_enabled = BuildEmptyFilter(b)
        /\ calls = [c \in CallIds |-> IdleCall]

\* No call is in flight and every result has been taken.
Quiet == \A c \in CallIds : calls[c].pc = "idle"

\* The steps of a call once it is in flight.
Step(c) ==
    \/ StoreShortLeft(c)
    \/ StoreLongLeft(c)
    \/ StoreShortLimit(c)
    \/ StoreLongLimit(c)
    \/ ReadMinSim(c)
    \/ FilterRow(c)
    \/ FilterRowReload(c)
    \/ Return(c)

(***************************************************************************)
(* Spec: one task uses the handler; it awaits each call before the next    *)
(* call or setter.                                                         *)
(***************************************************************************)
Init == InitWith(SeqBuilders)

SeqGetSauce ==
    /\ Quiet
    /\ \E c \in CallIds, p \in SeqPaths, n \in SeqNumRes, m \in SeqMinSims,
          readOk \in BOOLEAN, checked \in BOOLEAN :
           GetSauce(c, p, n, m, readOk, checked, Snapshot)

SeqRespond == \E c \in CallIds, o \in SeqOutcomes : Respond(c, o)

SeqSetMinSimilarity == Quiet /\ \E x \in SeqSetMinSims : set_min_similarity(x)

SeqSetEmptyFilter == Quiet /\ \E b \in BOOLEAN : set_empty_filter(b)

Next ==
    \/ SeqGetSauce
    \/ SeqRespond
    \/ \E c \in CallIds : Step(c)
    \/ SeqSetMinSimilarity
    \/ SeqSetEmptyFilter

Spec == Init /\ [][Next]_vars

(***************************************************************************)
(* SpecReq: the same single task, over many handler configurations and     *)
(* call arguments, with a provider that gives a few short answers.         *)
(***************************************************************************)
ReqBuilders ==
    { Builder(k, t, m, None, d, n, None, None) :
        k \in { None, Some(<<"k">>) },
        t \in { None, Some(TRUE), Some(FALSE) },
        m \in { None, Some(<<5, 27>>) },
        d \in { None, Some(999) },
        n \in { None, Some(10), Some(1000) } }

ReqPaths == { LinkHttps, LinkHttp, LocalPath, NearLink }

ReqNumRes == { None, Some(0), Some(999), Some(1000), Some(2147483647) }

ReqMinSims == { None, Some(-1), Some(0), Some(1000), Some(1001) }

ReqSetMinSims == { 0, 1001 }

ReqOutcomes ==
    { Failure("send_error"),
      Decoded(SauceResult(Header(-1, "Invalid API key", 3, 99, <<"4">>, <<"1", "0", "0">>), None)),
      Decoded(SauceResult(Header(0, "", 3, 99, <<"4">>, <<"1", "0", "0">>), None)),
      Decoded(SauceResult(Header(0, "", 3, 99, <<"4">>, <<"1", "0", "0">>),
                          Some(<< Row(<<"9", "0", ".", "0">>, PixivLabel, 3, OneUrl) >>))) }

InitReq == InitWith(ReqBuilders)

ReqGetSauce ==
    /\ Quiet
    /\ \E c \in CallIds, p \in ReqPaths, n \in ReqNumRes, m \in ReqMinSims,
          readOk \in BOOLEAN, checked \in BOOLEAN :
           GetSauce(c, p, n, m, readOk, checked, Snapshot)

ReqRespond == \E c \in CallIds, o \in ReqOutcomes : Respond(c, o)

ReqSetMinSimilarity == Quiet /\ \E x \in ReqSetMinSims : set_min_similarity(x)

ReqSetEmptyFilter == Quiet /\ \E b \in BOOLEAN : set_empty_filter(b)

NextReq ==
    \/ ReqGetSauce
    \/ ReqRespond
    \/ \E c \in CallIds : Step(c)
    \/ ReqSetMinSimilarity
    \/ ReqSetEmptyFilter

SpecReq == InitReq /\ [][NextReq]_vars

(***************************************************************************)
(* SpecMask: the single task again, over handlers built with every kind of *)
(* source selection: each catalog source alone, lists in both orders and   *)
(* with repeats, empty lists, and a single database index.                 *)
(***************************************************************************)
\* db_mask(vec![S]) for every source S of the catalog.
SingleLists == { << p[1] >> : p \in SourceTable }

\* Lists of several sources, with the empty list.
OtherLists ==
    { <<>>, <<5, 9>>, <<9, 5>>, <<5, 5>>, <<5, 9, 5>>, <<5, 21>>, <<18, 19>>,
      <<5, 33>>, <<33, 34>> }

MaskBuilders ==
    { Builder(None, None, m, mi, d, None, None, None) :
        m  \in { None } \cup { Some(l) : l \in SingleLists \cup OtherLists },
        mi \in { None, Some(<<>>), Some(<<9>>), Some(<<9, 9>>), Some(<<5, 9>>) },
        d  \in { None, Some(5) } }

MaskPaths == { LinkHttps, LocalPath }

InitMask == InitWith(MaskBuilders)

MaskGetSauce ==
    /\ Quiet
    /\ \E c \in CallIds, p \in MaskPaths, readOk \in BOOLEAN, checked \in BOOLEAN :
           GetSauce(c, p, None, None, readOk, checked, Snapshot)

MaskRespond == \E c \in CallIds, o \in ReqOutcomes : Respond(c, o)

NextMask ==
    \/ MaskGetSauce
    \/ MaskRespond
    \/ \E c \in CallIds : Step(c)

SpecMask == InitMask /\ [][NextMask]_vars

(***************************************************************************)
(* SpecConc: several tasks share the handler (&self, Sync).  Up to         *)
(* MaxInFlight get_sauce calls are in flight at once, their steps          *)
(* interleave in every order, and the setters run at any moment.           *)
(***************************************************************************)
ConcMinSims == { None, Some(500) }

ConcSetMinSims == { 0, 700 }

\* Two accepted searches that differ in all four counters.
ConcHeaders ==
    { Header(0, "", 3, 99, <<"4">>, <<"1", "0", "0">>),
      Header(0, "", 2, 98, <<"6">>, <<"3", "0", "0">>) }

ConcRows == << Row(<<"6", "0", ".", "0">>, PixivLabel, 3, OneUrl) >>

\* A row whose index label has no '#'.
ConcOddRows == << Row(<<"6", "0", ".", "0">>, NoHashLabel, 5, OneUrl) >>

ConcOutcomes ==
    { Decoded(SauceResult(h, r)) : h \in ConcHeaders, r \in { None, Some(ConcRows) } }
    \cup { Decoded(SauceResult(Header(0, "", 3, 99, <<"4">>, <<"1", "0", "0">>),
                               Some(ConcOddRows))) }

InitConc == InitWith({ DefaultBuilder })

ConcGetSauce ==
    \E c \in CallIds, m \in ConcMinSims :
        GetSauce(c, LinkHttps, None, m, TRUE, TRUE, NoSnapshot)

ConcRespond == \E c \in CallIds, o \in ConcOutcomes : Respond(c, o)

ConcSetMinSimilarity == \E x \in ConcSetMinSims : set_min_similarity(x)

ConcSetEmptyFilter == \E b \in BOOLEAN : set_empty_filter(b)

NextConc ==
    \/ ConcGetSauce
    \/ ConcRespond
    \/ \E c \in CallIds : Step(c)
    \/ ConcSetMinSimilarity
    \/ ConcSetEmptyFilter

SpecConc == InitConc /\ [][NextConc]_vars

(***************************************************************************)
(* SpecSet: one task makes the calls, one at a time, while another task    *)
(* calls set_min_similarity at any moment, also while a response is being  *)
(* processed.                                                              *)
(***************************************************************************)
SetRows ==
    << Row(<<"6", "0", ".", "0">>, PixivLabel, 1, OneUrl),
       Row(<<"6", "0", ".", "0">>, UnknownLabel, 2, <<>>),
       Row(<<"9", "0", ".", "0">>, PixivLabel, 3, OneUrl) >>

SetOutcomes ==
    { Decoded(SauceResult(Header(0, "", 3, 99, <<"4">>, <<"1", "0", "0">>), r)) :
        r \in { None, Some(SetRows) } }

SetMinSims == { None, Some(500) }

SetSetMinSims == { 0, 700, 950 }

InitSet == InitWith(SeqBuilders)

SetGetSauce ==
    /\ Quiet
    /\ \E c \in CallIds, m \in SetMinSims :
           GetSauce(c, LinkHttps, None, m, TRUE, TRUE, Snapshot)

SetRespond == \E c \in CallIds, o \in SetOutcomes : Respond(c, o)

SetSetMinSimilarity == \E x \in SetSetMinSims : set_min_similarity(x)

SetSetEmptyFilter == Quiet /\ \E b \in BOOLEAN : set_empty_filter(b)

NextSet ==
    \/ SetGetSauce
    \/ SetRespond
    \/ \E c \in CallIds : Step(c)
    \/ SetSetMinSimilarity
    \/ SetSetEmptyFilter

SpecSet == InitSet /\ [][NextSet]_vars

(***************************************************************************)
(* Properties                                                              *)
(***************************************************************************)
Started == { c \in CallIds : calls[c].pc # "idle" }

Done == { c \in CallIds : calls[c].pc = "done" }

ResultOf(c) == Unwrap(calls[c].result)

TooManyResults(call) ==
    IsSome(call.num_results) /\ Unwrap(call.num_results) > 999

MinSimOutOfRange(call) ==
    IsSome(call.min_similarity)
    /\ (Unwrap(call.min_similarity) < 0 \/ Unwrap(call.min_similarity) > 1000)

\* The call has touched neither the file system nor the network, and the
\* handler reads as it did when the call began.
NothingDone(call) ==
    /\ call.reads = 0
    /\ call.sends = 0
    /\ call.request = None
    /\ call.response = None
    /\ call.before = Snapshot

\* C1: a get_sauce call whose num_results argument is above 999 returns
\* InvalidParameters with no file read and no request, and leaves the four
\* counters, the default minimum similarity and the filter flag as they
\* were; a call whose num_results is None or at most 999 is never rejected
\* by the num_results check.
C1_NumResultsChecked ==
    \A c \in Started :
        /\ TooManyResults(calls[c]) =>
              /\ calls[c].pc = "done"
              /\ ResultOf(c).kind = "Err"
              /\ ResultOf(c).err = "InvalidParameters"
              /\ NothingDone(calls[c])
        /\ (~ TooManyResults(calls[c]) /\ calls[c].pc = "done") =>
              ResultOf(c) # ErrInvalidParameters(NumResMessage)

\* A call with num_results 1000 and no min_similarity has been rejected.
C1_Witness ==
    \E c \in Done :
        /\ calls[c].num_results = Some(1000)
        /\ calls[c].min_similarity = None
        /\ ResultOf(c) = ErrInvalidParameters(NumResMessage)

\* C2: a get_sauce call whose min_similarity argument is outside [0.0, 100.0]
\* returns InvalidParameters with no file read and no request, and leaves
\* the counters and the mutable defaults as they were; a call whose
\* min_similarity is None or inside the interval, bounds included, is never
\* rejected by the min_similarity check.
C2_MinSimilarityChecked ==
    \A c \in Started :
        /\ MinSimOutOfRange(calls[c]) =>
              /\ calls[c].pc = "done"
              /\ ResultOf(c) = ErrInvalidParameters(MinSimMessage)
              /\ NothingDone(calls[c])
        /\ (~ MinSimOutOfRange(calls[c]) /\ calls[c].pc = "done") =>
              ResultOf(c) # ErrInvalidParameters(MinSimMessage)

\* A call with min_similarity 100.1 has been rejected, on a handler whose
\* counters a previous call has changed.
C2_Witness ==
    \E c \in Done :
        /\ calls[c].min_similarity = Some(1001)
        /\ ResultOf(c) = ErrInvalidParameters(MinSimMessage)
        /\ short_left # InitShortLeft

HeaderOf(c) == Unwrap(calls[c].response).header

\* The calls whose response has been decoded and classified to the end.
Processed == { c \in Done : IsSome(calls[c].response) }

CountersAre(sl, ll, sr, lr) ==
    /\ short_limit = sl
    /\ long_limit = ll
    /\ short_left = sr
    /\ long_left = lr

CountersAsBefore(c) ==
    CountersAre(calls[c].before.short_limit, calls[c].before.long_limit,
                calls[c].before.short_left, calls[c].before.long_left)

\* The counters hold the header's limits and remaining allowances.
CountersFromHeader(c) ==
    /\ Some(short_limit) = ParseU32(HeaderOf(c).short_limit)
    /\ Some(long_limit) = ParseU32(HeaderOf(c).long_limit)
    /\ short_left = HeaderOf(c).short_remaining
    /\ long_left = HeaderOf(c).long_remaining

\* C3: when the header's status is negative the call returns InvalidCode
\* with exactly that status and message and no results, and the four
\* counters are what they were before the call.
C3_NegativeStatus ==
    \A c \in Processed :
        HeaderOf(c).status < 0 =>
            /\ ResultOf(c).kind = "Err"
            /\ ResultOf(c).err = "InvalidCode"
            /\ ResultOf(c).code = HeaderOf(c).status
            /\ ResultOf(c).message = HeaderOf(c).message
            /\ ResultOf(c).sauces = <<>>
            /\ CountersAsBefore(c)

\* A response with status -1 and message "Invalid API key" has been
\* classified, its header naming counters other than the handler's.
C3_Witness ==
    \E c \in Processed :
        /\ HeaderOf(c).status = -1
        /\ HeaderOf(c).message = "Invalid API key"
        /\ HeaderOf(c).short_remaining # short_left
        /\ ResultOf(c).message = "Invalid API key"

\* C4: after a call that returns Ok, the four getters give the short_limit,
\* long_limit, short_remaining and long_remaining of that response's
\* header, however many rows were admitted.
C4_CountersFromHeader ==
    \A c \in Processed : ResultOf(c).kind = "Ok" => CountersFromHeader(c)

\* A call has returned Ok with no row admitted out of a non-empty list, and
\* the counters have moved from where they were.
C4_Witness ==
    \E c \in Processed :
        /\ ResultOf(c).kind = "Ok"
        /\ ResultOf(c).sauces = <<>>
        /\ IsSome(Unwrap(calls[c].response).results)
        /\ Unwrap(Unwrap(calls[c].response).results) # <<>>
        /\ calls[c].before.long_left # long_left
        /\ calls[c].before.short_limit # short_limit

RowsOf(c) == Unwrap(Unwrap(calls[c].response).results)

\* The calls that returned Ok for a response with a results list.
Filtered ==
    { c \in Processed :
        ResultOf(c).kind = "Ok" /\ IsSome(Unwrap(calls[c].response).results) }

\* The threshold of a call: its argument, or the handler's default.
Threshold(c) ==
    IF IsSome(calls[c].min_similarity) THEN Unwrap(calls[c].min_similarity)
    ELSE min_similarity

\* The admission rule: the similarity meets the threshold, and the filter is
\* off or the row has an external URL.
Admitted(c, row) ==
    /\ Unwrap(ParseF64(row.similarity)) >= Threshold(c)
    /\ (~ empty_filter_enabled \/ row.ext_urls # <<>>)

\* The result holds a sauce made from this row.
Appears(c, row) ==
    \E j \in 1..Len(ResultOf(c).sauces) :
        /\ ResultOf(c).sauces[j].index_id = row.index_id
        /\ ResultOf(c).sauces[j].ext_urls = row.ext_urls
        /\ Some(ResultOf(c).sauces[j].similarity) = ParseF64(row.similarity)

IndexIds(sauces) == [j \in 1..Len(sauces) |-> sauces[j].index_id]

\* C5: a row is in the result exactly when its similarity is at least the
\* threshold and the filter is off or the row has an external URL; rows
\* 10.0, 60.0, 90.0 under threshold 50.0 give the 60.0 and 90.0 rows, and
\* with the filter on no row without external URLs is in the result.
C5_AdmissionRule ==
    \A c \in Filtered :
        /\ \A i \in 1..Len(RowsOf(c)) :
              Appears(c, RowsOf(c)[i]) <=> Admitted(c, RowsOf(c)[i])
        /\ (RowsOf(c) = ExampleRows /\ Threshold(c) = 500 /\ ~ empty_filter_enabled)
              => IndexIds(ResultOf(c).sauces) = <<2, 3>>
        /\ empty_filter_enabled =>
              \A j \in 1..Len(ResultOf(c).sauces) :
                  ResultOf(c).sauces[j].ext_urls # <<>>

\* The three-row example has been filtered under threshold 50.0.
C5_Witness ==
    \E c \in Filtered :
        /\ RowsOf(c) = ExampleRows
        /\ Threshold(c) = 500
        /\ ~ empty_filter_enabled
        /\ Len(ResultOf(c).sauces) = 2

\* C6: the result is the subsequence of admitted rows in the provider's
\* order, one sauce per admitted row, equal rows included.
C6_OrderKept ==
    \A c \in Filtered :
        LET kept == SelectSeq(RowsOf(c), LAMBDA row : Admitted(c, row))
        IN  /\ Len(ResultOf(c).sauces) = Len(kept)
            /\ \A j \in 1..Len(kept) :
                  /\ ResultOf(c).sauces[j].index_id = kept[j].index_id
                  /\ ResultOf(c).sauces[j].ext_urls = kept[j].ext_urls
                  /\ Some(ResultOf(c).sauces[j].similarity) = ParseF64(kept[j].similarity)

\* Two equal rows have both been admitted.
C6_Witness ==
    \E c \in Filtered :
        /\ Len(RowsOf(c)) = 2
        /\ RowsOf(c)[1] = RowsOf(c)[2]
        /\ Len(ResultOf(c).sauces) = 2

LimitsParse(c) ==
    /\ ParseU32(HeaderOf(c).short_limit) # None
    /\ ParseU32(HeaderOf(c).long_limit) # None

NoResultsList(c) ==
    HeaderOf(c).status >= 0 /\ Unwrap(calls[c].response).results = None

\* C7 as stated: when the status is >= 0 and the response has no results
\* list, the call returns Ok with an empty sequence and the four counters
\* are those of the header.
C7_NoResultsIsOk ==
    \A c \in Processed :
        NoResultsList(c) => ResultOf(c) = Ok(<<>>) /\ CountersFromHeader(c)

\* C7 as amended: when the status is >= 0, the header's short_limit and
\* long_limit parse as unsigned integers and the response has no results
\* list, the call returns Ok with an empty sequence and the four counters
\* are those of the header.
C7_NoResultsIsOkWhenLimitsParse ==
    \A c \in Processed :
        (NoResultsList(c) /\ LimitsParse(c))
            => ResultOf(c) = Ok(<<>>) /\ CountersFromHeader(c)

\* A response without a results list has been accepted and has moved the
\* counters.
C7_Witness ==
    \E c \in Processed :
        /\ NoResultsList(c)
        /\ LimitsParse(c)
        /\ ResultOf(c) = Ok(<<>>)
        /\ ~ CountersAsBefore(c)

HasBadSimilarity(c) ==
    /\ HeaderOf(c).status >= 0
    /\ IsSome(Unwrap(calls[c].response).results)
    /\ \E i \in 1..Len(RowsOf(c)) : ParseF64(RowsOf(c)[i].similarity) = None

\* C8: when any row of a status >= 0 response has a similarity that does
\* not parse, whatever its position and whether or not it would pass the
\* filter, the call fails with InvalidParse and returns no partial list.
C8_BadSimilarityFails ==
    \A c \in Processed :
        HasBadSimilarity(c) => ResultOf(c) = Err("InvalidParse")

\* The query pairs of a request with the given key.
Pairs(url, key) == SelectSeq(url, LAMBDA p : p[1] = key)

\* The calls with a request in flight.
Sent == { c \in CallIds : IsSome(calls[c].request) }

UrlOf(c) == Unwrap(calls[c].request).url

\* The numres a request must carry: the argument, else the configured
\* value, else 999.
ExpectedNumRes(c) ==
    IF IsSome(calls[c].num_results) THEN Unwrap(calls[c].num_results)
    ELSE IF IsSome(cfg.num_results) THEN Unwrap(cfg.num_results)
    ELSE 999

\* C9: a request URL carries exactly one numres, whose value is the
\* argument if given, else the builder's num_results if set, else 999; and
\* it carries api_key, output_type 2, and testmode 1 when the builder
\* enabled testmode and 0 otherwise.
C9_UrlParameters ==
    \A c \in Sent :
        \E b \in ReqBuilders :
            /\ cfg = BuildConfig(b)
            /\ Len(Pairs(UrlOf(c), "numres")) = 1
            /\ ParseU32(Pairs(UrlOf(c), "numres")[1][2]) = Some(ExpectedNumRes(c))
            /\ Pairs(UrlOf(c), "api_key")
                  = << <<"api_key", IF IsSome(b.api_key) THEN Unwrap(b.api_key) ELSE <<>> >> >>
            /\ Pairs(UrlOf(c), "output_type") = << <<"output_type", <<"2">> >> >>
            /\ Pairs(UrlOf(c), "testmode")
                  = << <<"testmode", IF b.testmode = Some(TRUE) THEN <<"1">> ELSE <<"0">> >> >>

\* A request is in flight whose numres comes from the builder while the
\* builder enabled testmode, and the URL says numres=10 and testmode=1.
C9_Witness ==
    \E c \in Sent :
        /\ calls[c].num_results = None
        /\ cfg.num_results = Some(10)
        /\ cfg.testmode = Some(1)
        /\ Pairs(UrlOf(c), "numres") = << <<"numres", <<"1", "0">> >> >>
        /\ Pairs(UrlOf(c), "testmode") = << <<"testmode", <<"1">> >> >>

\* C10: the numres of every request that is sent is at most 999, whatever
\* num_results the builder was given and whatever the arguments.
C10_NumResAtMost999 ==
    \A c \in Sent :
        \A i \in 1..Len(Pairs(UrlOf(c), "numres")) :
            Unwrap(ParseU32(Pairs(UrlOf(c), "numres")[i][2])) <= 999

\* The call gave no min_similarity while the handler's default, as the call
\* found it, was outside [0.0, 100.0].
DefaultMinSimOutOfRange(call) ==
    /\ call.min_similarity = None
    /\ (call.before.min_similarity < 0 \/ call.before.min_similarity > 1000)

\* C11: a get_sauce call that gives no min_similarity on a handler whose
\* default minimum similarity is outside [0.0, 100.0] fails with no file
\* read and no request.
C11_DefaultMinSimChecked ==
    \A c \in Started :
        DefaultMinSimOutOfRange(calls[c]) =>
            /\ calls[c].pc = "done"
            /\ ResultOf(c).kind = "Err"
            /\ NothingDone(calls[c])

\* The one-element include list of a handler, if it has one.
IsSingleList(list, index) == list = Some(<< index >>)

\* C12: for every source S of the catalog, the bitmask of the list [S] has
\* exactly one bit set, the bit at S's numeric index: building the request
\* does not crash, and its dbmask is the decimal of 2^index.
C12_OneBitAtIndex ==
    \A c \in Started : \A p \in SourceTable :
        IsSingleList(cfg.db_mask, p[1]) =>
            /\ calls[c].pc = "done" => ResultOf(c) # Panic
            /\ c \in Sent =>
                  /\ p[1] < U32Bits
                  /\ Pairs(UrlOf(c), "dbmask")
                        = << <<"dbmask", BitmaskToString({ p[1] })>> >>

\* The sources a list names.
Listed(list) == { list[i] : i \in 1..Len(list) }

\* The decimal of the mask with exactly the bits of the listed sources.
MaskStringOfSet(list) == BitmaskToString(Listed(list))

\* C13: the bitmask of a db_mask or db_mask_i list has the bit of each
\* listed source and no other, so it depends only on the set of listed
\* sources, whatever their order and however often each is listed.
C13_MaskOfSet ==
    \A c \in Sent :
        /\ (IsSome(cfg.db_mask) /\ Unwrap(cfg.db_mask) # <<>>) =>
              Pairs(UrlOf(c), "dbmask")
                  = << <<"dbmask", MaskStringOfSet(Unwrap(cfg.db_mask))>> >>
        /\ (IsSome(cfg.db_mask_i) /\ Unwrap(cfg.db_mask_i) # <<>>) =>
              Pairs(UrlOf(c), "dbmaski")
                  = << <<"dbmaski", MaskStringOfSet(Unwrap(cfg.db_mask_i))>> >>

\* The decimal of the mask generate_bitmask gives for a list.
MaskStringOf(list) == BitmaskToString(Unwrap(generate_bitmask(list, FALSE)))

\* The pair a request must carry for an include or exclude list.
ExpectedMaskPairs(key, list) ==
    IF IsSome(list) /\ Unwrap(list) # <<>>
    THEN << <<key, MaskStringOf(Unwrap(list))>> >>
    ELSE <<>>

\* C14: a request carries db exactly when a database index is configured,
\* with that index; dbmask exactly when an include list is configured and
\* not empty, with the bitmask of that list; dbmaski exactly when an exclude
\* list is configured and not empty, with the bitmask of that list; each of
\* the three independently of the other two.
C14_DbParameters ==
    \A c \in Sent :
        /\ Pairs(UrlOf(c), "db")
              = (IF IsSome(cfg.db)
                 THEN << <<"db", U32ToString(Unwrap(cfg.db))>> >>
                 ELSE <<>>)
        /\ Pairs(UrlOf(c), "dbmask") = ExpectedMaskPairs("dbmask", cfg.db_mask)
        /\ Pairs(UrlOf(c), "dbmaski") = ExpectedMaskPairs("dbmaski", cfg.db_mask_i)

\* A request of a handler with db 5, an empty include list and the exclude
\* list [5, 9] is in flight: it carries db=5 and dbmaski=544 and no dbmask.
C14_Witness ==
    \E c \in Sent :
        /\ cfg.db = Some(5)
        /\ cfg.db_mask = Some(<<>>)
        /\ cfg.db_mask_i = Some(<<5, 9>>)
        /\ Pairs(UrlOf(c), "db") = << <<"db", <<"5">> >> >>
        /\ Pairs(UrlOf(c), "dbmask") = <<>>
        /\ Pairs(UrlOf(c), "dbmaski") = << <<"dbmaski", <<"5", "4", "4">> >> >>

\* C15: a request carries a url parameter, equal to the image target, and
\* no body exactly when the target starts with http:// or https://; for
\* any other target it carries no url parameter, the target has been read
\* as a file, and the body is a multipart form with one part, "file".  So
\* the query and the body always classify the target alike.
C15_TargetClassified ==
    \A c \in Sent :
        LET target == calls[c].image_path
            req    == Unwrap(calls[c].request)
        IN  IF StartsWith(target, HttpPrefix) \/ StartsWith(target, HttpsPrefix)
            THEN /\ Pairs(req.url, "url") = << <<"url", target>> >>
                 /\ req.body = None
                 /\ calls[c].reads = 0
            ELSE /\ Pairs(req.url, "url") = <<>>
                 /\ IsSome(req.body)
                 /\ Unwrap(req.body).part = "file"
                 /\ calls[c].reads = 1

\* A request for the target "http:/a", which only resembles a link, is in
\* flight with a file part and no url parameter.
C15_Witness ==
    \E c \in Sent :
        /\ calls[c].image_path = NearLink
        /\ Pairs(UrlOf(c), "url") = <<>>
        /\ Unwrap(calls[c].request).body
              = Some([part |-> "file", file_name |-> <<"a">>])

\* The number an index label gives after its '#', up to the ':'.
NumberAfterHash(label) ==
    LET rest == SubSeq(label, FirstIndexOf(label, "#") + 1, Len(label))
    IN  DigitsValue(SubSeq(rest, 1, FirstIndexOf(rest, ":") - 1))

\* The sauce has the catalog name of its index when the catalog knows the
\* index and the row's label otherwise, and its index is the row's.
SiteResolved(sauce, row) ==
    /\ sauce.index = NumberAfterHash(row.index_name)
    /\ IF \E p \in SourceTable : p[1] = sauce.index
       THEN \E p \in SourceTable :
               p[1] = sauce.index /\ sauce.site = CatalogSite(p[2])
       ELSE sauce.site = LabelSite(row.index_name)

\* The calls whose response was accepted and had a results list to filter.
RowsProcessed ==
    { c \in Processed :
        /\ HeaderOf(c).status >= 0
        /\ LimitsParse(c)
        /\ IsSome(Unwrap(calls[c].response).results) }

\* C16: producing the results of the admitted rows never crashes, whatever
\* their index labels; each result has the catalog name of the row's index
\* when the index is a known source and the raw index label when it is not,
\* and the row's numeric index as its index in both cases.
C16_SiteResolved ==
    \A c \in RowsProcessed :
        /\ ResultOf(c).kind # "Panic"
        /\ ResultOf(c).kind = "Ok" =>
              LET kept == SelectSeq(RowsOf(c), LAMBDA row : Admitted(c, row))
              IN  \A j \in 1..Len(ResultOf(c).sauces) :
                      SiteResolved(ResultOf(c).sauces[j], kept[j])

\* The calls that returned Ok.
Succeeded == { c \in Processed : ResultOf(c).kind = "Ok" }

\* C17 as stated: after a successful call the short-window and long-window
\* remaining counters are not greater than they were before the call.
C17_RemainingNeverIncrease ==
    \A c \in Succeeded :
        /\ short_left <= calls[c].before.short_left
        /\ long_left <= calls[c].before.long_left

\* C17 as amended: after a successful call made while no other call is in
\* flight, each remaining counter whose value in the response header is not
\* greater than the counter before the call is not greater than it was
\* before the call, and is smaller when the header's value is smaller, as
\* after the first call on a fresh handler (12 and 200) that the provider
\* answers with smaller allowances.
C17_RemainingFollowHeader ==
    \A c \in Succeeded :
        /\ HeaderOf(c).short_remaining <= calls[c].before.short_left
              => short_left <= calls[c].before.short_left
        /\ HeaderOf(c).long_remaining <= calls[c].before.long_left
              => long_left <= calls[c].before.long_left
        /\ HeaderOf(c).short_remaining < calls[c].before.short_left
              => short_left < calls[c].before.short_left
        /\ HeaderOf(c).long_remaining < calls[c].before.long_left
              => long_left < calls[c].before.long_left

\* The first successful call on a fresh handler has left both remaining
\* counters below 12 and 200.
C17_Witness ==
    \E c \in Succeeded :
        /\ calls[c].before.short_left = InitShortLeft
        /\ calls[c].before.long_left = InitLongLeft
        /\ short_left < InitShortLeft
        /\ long_left < InitLongLeft

\* C18: when the transport returns a response whose body does not decode as
\* the expected structure, get_sauce fails with InvalidSerde, not with
\* InvalidRequest, and the four counters are as before the call.
C18_UndecodableIsSerde ==
    \A c \in Done :
        calls[c].received = "undecodable" =>
            /\ ResultOf(c) = Err("InvalidSerde")
            /\ CountersAsBefore(c)

\* C19: when the target is not an http:// or https:// URL and its file
\* cannot be read, get_sauce and get_sauce_as_json fail with InvalidFile, no
\* request is sent, and the four counters are as before the call; a file is
\* read only for such a target.
C19_UnreadableFile ==
    \A c \in Started :
        /\ calls[c].read_failed =>
              /\ calls[c].pc = "done"
              /\ ~ (StartsWith(calls[c].image_path, HttpPrefix)
                    \/ StartsWith(calls[c].image_path, HttpsPrefix))
              /\ ResultOf(c) = Err("InvalidFile")
              /\ get_sauce_as_json(ResultOf(c)) = Err("InvalidFile")
              /\ calls[c].sends = 0
              /\ calls[c].request = None
              /\ calls[c].received = "none"
              /\ CountersAsBefore(c)
        /\ (calls[c].pc = "done" /\ ResultOf(c) = Err("InvalidFile"))
              => calls[c].read_failed

\* The file "http:/a" could not be read, on a handler whose counters an
\* earlier call has changed, and the call has failed with InvalidFile.
C19_Witness ==
    \E c \in Done :
        /\ calls[c].read_failed
        /\ calls[c].image_path = NearLink
        /\ ResultOf(c) = Err("InvalidFile")
        /\ short_left # InitShortLeft
        /\ calls[c].sends = 0

\* C20: when the get_sauce calls in flight together have all returned Ok,
\* whatever the interleaving of their steps, the four counters are the
\* header values of one single response, never a mixture of two.
C20_CountersFromOneResponse ==
    (Done = CallIds /\ \A c \in CallIds : ResultOf(c).kind = "Ok")
        => \E c \in CallIds : CountersFromHeader(c)

\* The threshold a call gave, or the handler's default as it is now.
CurrentThreshold(call) ==
    IF IsSome(call.min_similarity) THEN Unwrap(call.min_similarity)
    ELSE min_similarity

\* The rows of the response are judged against the one threshold the call
\* took when it began to process the response.
JudgedByOneThreshold(c) ==
    \A i \in 1..Len(RowsOf(c)) :
        Appears(c, RowsOf(c)[i])
            <=> /\ Unwrap(ParseF64(RowsOf(c)[i].similarity)) >= calls[c].actual_min_sim
                /\ (~ empty_filter_enabled \/ RowsOf(c)[i].ext_urls # <<>>)

\* C21: the threshold of a call is its min_similarity argument when it gave
\* one, whatever the handler's default; otherwise it is the default as it
\* stands at the moment the call begins to process the response; and every
\* row of the response is judged against that one value, also when
\* set_min_similarity changes the default while the rows are processed.
C21_OneThreshold ==
    /\ [][\A c \in CallIds :
            (calls[c].pc = "results" /\ calls'[c].pc = "row")
                => calls'[c].actual_min_sim = CurrentThreshold(calls[c])]_vars
    /\ [](\A c \in Filtered :
            /\ IsSome(calls[c].min_similarity)
                  => calls[c].actual_min_sim = Unwrap(calls[c].min_similarity)
            /\ JudgedByOneThreshold(c))

\* A call without argument found the default at 0.0 when it began, took
\* the threshold 70.0 when it processed the response, and the default was
\* set to 0.0 again before the rows were done: only the 90.0 row is in the
\* result.
C21_Witness ==
    \E c \in Filtered :
        /\ calls[c].min_similarity = None
        /\ calls[c].before.min_similarity = 0
        /\ calls[c].actual_min_sim = 700
        /\ min_similarity = 0
        /\ ~ empty_filter_enabled
        /\ RowsOf(c) = SetRows
        /\ IndexIds(ResultOf(c).sauces) = <<3>>

\* The transport has answered the call's request.
Answered(c) == calls[c].received # "none"

\* The steps of process_results are guarded by the call's own position
\* alone: at each of these positions the call has a next step whatever the
\* other calls and the setters are doing.
Processing(c) ==
    calls[c].pc \in { "store_short_left", "store_long_left", "store_short_limit",
                      "store_long_limit", "results", "row", "row_reload" }

\* C22: with any number of get_sauce calls in flight and the setters
\* running at any moment, a call whose request has been answered never
\* waits on another call or on a setter: until it has stopped it is at a
\* position of process_results, from which it steps on its own, and when it
\* has stopped it has returned a result or an error.
C22_AnsweredCallsReturn ==
    \A c \in CallIds :
        Answered(c) =>
            \/ Processing(c)
            \/ calls[c].pc = "done" /\ ResultOf(c).kind \in { "Ok", "Err" }

\* The row meets the threshold the call took and has at least one ext_url.
Admissible(c, row) ==
    /\ Unwrap(ParseF64(row.similarity)) >= calls[c].actual_min_sim
    /\ row.ext_urls # <<>>

\* C23: with set_empty_filter running at any moment of the processing of a
\* response, a row whose similarity meets the threshold and whose ext_urls
\* list is not empty is in the result, whatever the flag was: each row is
\* judged against one value of the flag.
C23_OneFlagValue ==
    \A c \in Filtered :
        \A i \in 1..Len(RowsOf(c)) :
            Admissible(c, RowsOf(c)[i]) => Appears(c, RowsOf(c)[i])

\* C24: after a call made with no other call in flight, the four counters
\* are all those of the response's header or all what they were before the
\* call, and they are what they were when the call returned an error.
C24_AllOrNothing ==
    \A c \in Processed :
        /\ CountersFromHeader(c) \/ CountersAsBefore(c)
        /\ ResultOf(c).kind = "Err" => CountersAsBefore(c)

\* A non-empty list of distinct source indices of the catalog.
DistinctCatalogList(list) ==
    /\ list # <<>>
    /\ \A i \in 1..Len(list) : IsSome(get_source(list[i]))
    /\ Cardinality(Listed(list)) = Len(list)

\* The 32-bit masks with exactly n bits set.
MasksOfBits(n) ==
    { Listed(f) : f \in { g \in [1..n -> 0..(U32Bits - 1)] :
                            Cardinality(Listed(g)) = n } }

\* C25: for a list of distinct catalog sources generate_bitmask does not
\* overflow 32 bits: building the request does not crash, and the dbmask
\* sent is a 32-bit mask with one bit for each listed source, no two sources
\* sharing a bit and none lost.
C25_NoOverflow ==
    \A c \in Started :
        (IsSome(cfg.db_mask) /\ DistinctCatalogList(Unwrap(cfg.db_mask))) =>
            /\ calls[c].pc = "done" => ResultOf(c) # Panic
            /\ c \in Sent =>
                  \E bits \in MasksOfBits(Len(Unwrap(cfg.db_mask))) :
                      Pairs(UrlOf(c), "dbmask")
                          = << <<"dbmask", BitmaskToString(bits)>> >>

=============================================================================
